---- MODULE Spec2Model ----
(***************************************************************************)
(* Model of the tensor quantization scripts of EnglishSubtitles:           *)
(*   src/python/advanced_quantization.py     (int8, int4, block-wise)      *)
(*   src/python/whisper_proper_quantization.py (int8 + loader)             *)
(*   src/python/mixed_precision_quantization.py (int8/float16 + loader)    *)
(*   src/python/real_quantization.py         (binary per-tensor files)     *)
(*   src/python/simple_quantization.py       (int8/float16 in one file)    *)
(*                                                                         *)
(* Spec is a run of one of the conversion functions over one tensor.       *)
(* SaveSpec is real_quantization.py step by step over a state_dict of      *)
(* several tensors: the files of the output directory, metadata.json, the  *)
(* archive and test_loading_quantized_model.                               *)
(*                                                                         *)
(* and of the scripts around them, each with its own specification:        *)
(*   src/quantize_model.py                   (ModelSpec)                   *)
(*   src/python/replace_app_models.py        (ReplaceSpec)                 *)
(*   src/python/quantize_whisper_model.py    (WhisperSpec)                 *)
(*   src/python/prune_for_turkish.py         (PruneSpec)                   *)
(* A call of coremltools, tiktoken or the file system either returns or    *)
(* raises; the variables of the scripts a specification does not run stay  *)
(* idle.                                                                   *)
(*                                                                         *)
(* Floating-point values are modelled as exact extended rationals n/d:     *)
(* d > 0 is a finite value in lowest terms, 1/0 and -1/0 are the           *)
(* infinities and 0/0 is NaN, so that a division by zero behaves as numpy  *)
(* does (a warning and inf/nan, no exception).  Rounding error of the      *)
(* binary float formats is not modelled, except the float16 narrowing.     *)
(* Integer casts keep their width (astype(int8) / astype(uint8) wrap).     *)
(***************************************************************************)
EXTENDS Integers, Sequences, FiniteSets, TLC

VARIABLES
    param,       \* the tensor of the state_dict: dtype, shape, data
    pc,          \* "start", "quantized", "loaded", or the exception raised
    tool,        \* the function that ran
    arg_method,  \* advanced_quantization's method argument
    arg_block,   \* quantize_block_wise's block_size argument
    arg_name,    \* the tensor's name in the state_dict (layer_name)
    q,           \* what the function returned or stored for the tensor
    deq,         \* the tensor the loader returned
    total,       \* the run's total_original_size and total_quantized_size
    state_dict,    \* real_quantization.py: the model's named tensors, in order
    spc,           \* position in quantize_and_save_real and main
    idx,           \* the tensor the loop is at (from 1)
    files,         \* the per-tensor files of the output directory
    metadata,      \* metadata['parameters'], in insertion order
    metadata_json, \* the file metadata.json of the output directory
    sizes,         \* total_original_size and total_compressed_size
    run,           \* which run of the script this is, the first or the second
    write_log,     \* the names whose files this run completed, in order
    archive,       \* the archive: the directory as tar.add stored it
    loaded,        \* the outcome of test_loading_quantized_model
    arg_bits,      \* quantize_model.py: the bits argument
    present,       \* the entries of base_path
    component,     \* the component quantize_whisper_medium is at (from 1)
    mpc,           \* position in quantize_whisper_medium and quantize_mlmodelc
    lib_calls,     \* the calls made to coremltools, in order
    output,        \* the entries of output_base_path
    backup,            \* replace_app_models.py: ./original_models_backup
    app_encoder,       \* AudioEncoder.mlmodelc of the app's model directory
    quantized_encoder, \* ./AudioEncoder_quantized.mlmodelc
    mel_spectrogram,   \* ./MelSpectrogram.mlmodelc
    backup_dir,        \* main: what create_backup returned
    working_models,    \* main: what test_quantized_models returned
    apc,               \* position in main and replace_audioencoder
    model_files,     \* quantize_whisper_model.py: the models found to quantize
    file_idx,        \* the model the loop is at (from 1)
    success_count,   \* the models counted as quantized
    original_models, \* the .mlmodel files of the downloaded directory
    quantized_names, \* the models saved into output_dir
    summary,         \* what the summary reports
    wpc,             \* position in main
    vocab_size,  \* prune_for_turkish.py: model.dims.n_vocab
    token_id,    \* the token the loop is at
    vocab_mask,  \* the mask: True = keep token, False = remove token
    kept_tokens, \* the function's count of the tokens kept
    ppc          \* position in get_turkish_vocabulary_mask

toolVars == <<param, pc, tool, arg_method, arg_block, arg_name, q, deq, total>>

saveVars == <<state_dict, spc, idx, files, metadata, metadata_json, sizes, run,
              write_log, archive, loaded>>

modelVars == <<arg_bits, present, component, mpc, lib_calls, output>>

\* the variables of the scripts other than the tensor converters
appVars == <<backup, app_encoder, quantized_encoder, mel_spectrogram,
             backup_dir, working_models, apc>>

whisperVars == <<model_files, file_idx, success_count, original_models,
                 quantized_names, summary, wpc>>

pruneVars == <<vocab_size, token_id, vocab_mask, kept_tokens, ppc>>

scriptVars == <<modelVars, appVars, whisperVars, pruneVars>>

vars == <<toolVars, saveVars, scriptVars>>

----------------------------------------------------------------------------
(* Bounds of the model *)

\* tensor values are k / ValDen for k in -MaxNum .. MaxNum
MaxNum == 2
ValDen == 4

----------------------------------------------------------------------------
(* Extended rational arithmetic standing for numpy float arithmetic *)

Sign(x) == IF x > 0 THEN 1 ELSE IF x < 0 THEN -1 ELSE 0

AbsInt(x) == IF x < 0 THEN -x ELSE x

RECURSIVE GCD(_, _)
GCD(a, b) == IF b = 0 THEN a ELSE GCD(b, a % b)

\* n/d with d >= 0, in lowest terms; d = 0 is an infinity (n # 0) or NaN (n = 0)
FNorm(n, d) ==
    IF d = 0 THEN [n |-> Sign(n), d |-> 0]
    ELSE LET g == GCD(AbsInt(n), d) IN [n |-> n \div g, d |-> d \div g]

FOfInt(i) == [n |-> i, d |-> 1]

IsNaN(x) == x.d = 0 /\ x.n = 0

IsFinite(x) == x.d > 0

FNeg(x) == [n |-> -x.n, d |-> x.d]

FAdd(x, y) ==
    IF x.d = 0 /\ y.d = 0
    THEN (IF x.n = y.n THEN x ELSE [n |-> 0, d |-> 0])
    ELSE FNorm(x.n * y.d + y.n * x.d, x.d * y.d)

FSub(x, y) == FAdd(x, FNeg(y))

FMul(x, y) == FNorm(x.n * y.n, x.d * y.d)

\* x / y as numpy computes it: x/0 is +-inf (NaN for 0/0), never an exception
FDiv(x, y) ==
    IF y.n = 0 /\ y.d > 0 THEN FNorm(x.n, 0)
    ELSE FNorm(x.n * y.d * Sign(y.n), x.d * AbsInt(y.n))

\* comparisons; any comparison with NaN is false
FLe(x, y) == ~IsNaN(x) /\ ~IsNaN(y) /\
    (IF x.d = 0 /\ y.d = 0 THEN x.n <= y.n
     ELSE IF x.d = 0 THEN x.n < 0
     ELSE IF y.d = 0 THEN y.n > 0
     ELSE x.n * y.d <= y.n * x.d)

FLt(x, y) == FLe(x, y) /\ x # y

FAbs(x) == [n |-> AbsInt(x.n), d |-> x.d]

\* np.round of a finite value: round half to even
RoundHalfEven(x) ==
    LET fl == x.n \div x.d
        r  == x.n - fl * x.d
    IN  IF 2 * r < x.d THEN fl
        ELSE IF 2 * r > x.d THEN fl + 1
        ELSE IF fl % 2 = 0 THEN fl ELSE fl + 1

\* astype(np.int8): a finite integer wraps to 8 signed bits; the cast of NaN or
\* an infinity is undefined and yields the value u the platform produces
Int8Wrap(i) == ((i + 128) % 256) - 128

AsInt8(x, u) == IF IsFinite(x) THEN Int8Wrap(RoundHalfEven(x)) ELSE u

\* astype(np.uint8)
AsUInt8(x, u) == IF IsFinite(x) THEN RoundHalfEven(x) % 256 ELSE u

\* the values an undefined float -> integer cast may produce
UndefCast == {-128, 0}

----------------------------------------------------------------------------
(* Tensors: dtype, shape and row-major data *)

RECURSIVE Numel(_)
Numel(shape) == IF shape = <<>> THEN 1 ELSE Head(shape) * Numel(Tail(shape))

Rank(shape) == Len(shape)

\* weights.min() / weights.max() of a non-empty array
ArrMin(data) ==
    LET S == {data[i] : i \in DOMAIN data}
    IN  CHOOSE x \in S : \A y \in S : FLe(x, y)

ArrMax(data) ==
    LET S == {data[i] : i \in DOMAIN data}
    IN  CHOOSE x \in S : \A y \in S : FLe(y, x)

Values == {FNorm(k, ValDen) : k \in -MaxNum..MaxNum}

ShortShapes == {<<>>, <<0>>, <<1>>, <<2>>, <<3>>, <<0, 2>>, <<1, 1>>, <<1, 2>>, <<2, 2>>}

\* shapes around the block size 128 of quantize_block_wise
BlockShapes == {<<10, 10>>, <<3, 100>>}

\* shapes around the int8 threshold of 1000 elements
ThresholdShapes == {<<1001>>, <<10, 100>>, <<7, 143>>}

\* a long tensor: the values cycle through Values with stride a from offset b
Pattern(n, a, b) ==
    [i \in 1..n |-> FNorm(((a * i + b) % (2 * MaxNum + 1)) - MaxNum, ValDen)]

IntPattern(n, a, b) == [i \in 1..n |-> FOfInt(((a * i + b) % 3) - 1)]

ShortParams ==
    {[dtype |-> "float32", shape |-> s, data |-> d] :
        s \in ShortShapes, d \in UNION {[1..Numel(t) -> Values] : t \in ShortShapes}}

Params ==
    {p \in ShortParams : Len(p.data) = Numel(p.shape)}
    \cup {[dtype |-> "float32", shape |-> s, data |-> Pattern(Numel(s), a, b)] :
            s \in BlockShapes, a \in 0..1, b \in 0..(2 * MaxNum)}
    \cup {[dtype |-> "float32", shape |-> s, data |-> Pattern(Numel(s), a, b)] :
            s \in ThresholdShapes, a \in 0..1, b \in 0..1}
    \cup {[dtype |-> "int64", shape |-> s, data |-> IntPattern(Numel(s), a, b)] :
            s \in {<<>>, <<2>>, <<2, 2>>}, a \in 0..1, b \in 0..2}
    \cup {[dtype |-> "int64", shape |-> <<7, 143>>, data |-> IntPattern(1001, 1, 0)]}

----------------------------------------------------------------------------
(* advanced_quantization.py: the encoders *)

Raise(err) == [kind |-> "raise", error |-> err]

\* mutant: 255 steps instead of 254
Int8Scale_255(w_min, w_max) == FDiv(FSub(w_max, w_min), FOfInt(255))

\* scale = (w_max - w_min) / 254.0
Int8Scale(w_min, w_max) == FDiv(FSub(w_max, w_min), FOfInt(254))

\* zero_point = -127 - w_min / scale
Int8ZeroPoint(w_min, scale) == FSub(FOfInt(-127), FDiv(w_min, scale))

\* np.round((weights / scale) + zero_point).astype(np.int8), elementwise
Int8Codes(data, scale, zero_point, u) ==
    [i \in DOMAIN data |-> AsInt8(FAdd(FDiv(data[i], scale), zero_point), u)]

quantize_int8(weights, u) ==
    IF Len(weights.data) = 0 THEN Raise("ValueError")
    ELSE
    LET w_min == ArrMin(weights.data)
        w_max == ArrMax(weights.data)
        scale == Int8Scale(w_min, w_max)
        zero_point == Int8ZeroPoint(w_min, scale)
    IN  [kind |-> "int8",
         weights |-> Int8Codes(weights.data, scale, zero_point, u),
         scale |-> scale,
         zero_point |-> zero_point,
         shape |-> weights.shape]

\* np.clip(x, 0, 15)
Clip15(x) == IF x < 0 THEN 0 ELSE IF x > 15 THEN 15 ELSE x

\* mutant: the int8 formula round(weights / scale + zero_point)
Int4Codes_Int8Formula(data, scale, zero_point, u) ==
    [i \in DOMAIN data |->
        Clip15(AsUInt8(FAdd(FDiv(data[i], scale), zero_point), u % 256))]

\* np.clip(np.round((weights - zero_point) / scale).astype(np.uint8), 0, 15)
Int4Codes(data, scale, zero_point, u) ==
    [i \in DOMAIN data |->
        Clip15(AsUInt8(FDiv(FSub(data[i], zero_point), scale), u % 256))]

\* mutant: the two nibbles swapped
PackNibbles_Swapped(quantized) ==
    LET size == Len(quantized) IN
    [k \in 1..((size + 1) \div 2) |->
        LET low  == quantized[2 * k - 1]
            high == IF 2 * k <= size THEN quantized[2 * k] ELSE 0
        IN  (low * 16 + high) % 256]

\* packed[i // 2] = (high << 4) | low, stored as uint8; high is 0 past the end
PackNibbles(quantized) ==
    LET size == Len(quantized) IN
    [k \in 1..((size + 1) \div 2) |->
        LET low  == quantized[2 * k - 1]
            high == IF 2 * k <= size THEN quantized[2 * k] ELSE 0
        IN  (high * 16 + low) % 256]

quantize_int4(weights, u) ==
    IF Len(weights.data) = 0 THEN Raise("ValueError")
    ELSE
    LET w_min == ArrMin(weights.data)
        w_max == ArrMax(weights.data)
        scale == FDiv(FSub(w_max, w_min), FOfInt(15))
        zero_point == w_min
        quantized == Int4Codes(weights.data, scale, zero_point, u)
    IN  [kind |-> "int4",
         packed_weights |-> PackNibbles(quantized),
         scale |-> scale,
         zero_point |-> zero_point,
         shape |-> weights.shape,
         original_size |-> Len(quantized)]

MinInt(a, b) == IF a < b THEN a ELSE b

\* mutant: the partial last block dropped
NumBlocks_Floor(size, block_size) == size \div block_size

\* num_blocks = (flat_weights.size + block_size - 1) // block_size
NumBlocks(size, block_size) == (size + block_size - 1) \div block_size

\* block i (from 0) is flat_weights[start_idx:end_idx]
BlockStart(i, block_size) == i * block_size

BlockEnd(i, block_size, size) == MinInt((i + 1) * block_size, size)

\* the scale of one block: 1.0 when all its values are equal
BlockScale(w_min, w_max) ==
    IF w_max = w_min THEN FOfInt(1) ELSE FDiv(FSub(w_max, w_min), FOfInt(254))

\* the zero_point of one block: w_min when all its values are equal
BlockZeroPoint(w_min, w_max, scale) ==
    IF w_max = w_min THEN w_min ELSE FSub(FOfInt(-127), FDiv(w_min, scale))

quantize_block_wise(weights, block_size, u) ==
    IF Len(weights.data) < block_size
    THEN LET r == quantize_int8(weights, u) IN
         IF r.kind = "raise" THEN r ELSE [kind |-> "tuple", data |-> r, bits |-> 8]
    ELSE
    LET flat_weights == weights.data
        num_blocks == NumBlocks(Len(flat_weights), block_size)
        Block(i) == SubSeq(flat_weights, BlockStart(i, block_size) + 1,
                           BlockEnd(i, block_size, Len(flat_weights)))
        Scale(i) == BlockScale(ArrMin(Block(i)), ArrMax(Block(i)))
        Zero(i)  == BlockZeroPoint(ArrMin(Block(i)), ArrMax(Block(i)), Scale(i))
    IN  [kind |-> "block",
         blocks |-> [k \in 1..num_blocks |->
                        Int8Codes(Block(k - 1), Scale(k - 1), Zero(k - 1), u)],
         scales |-> [k \in 1..num_blocks |-> Scale(k - 1)],
         zero_points |-> [k \in 1..num_blocks |-> Zero(k - 1)],
         shape |-> weights.shape,
         block_size |-> block_size]

\* critical in layer_name: critical occurs in layer_name as a substring
Contains(critical, layer_name) ==
    \E k \in 0..(Len(layer_name) - Len(critical)) :
        SubSeq(layer_name, k + 1, k + Len(critical)) = critical

\* mutant: the layer norms left out of the critical layers
critical_layers_NoLayerNorm ==
    {"encoder.conv1", "encoder.conv2", "decoder.token_embedding"}

critical_layers ==
    {"encoder.conv1", "encoder.conv2", "decoder.token_embedding", "decoder.ln"}

\* returns the pair (quantized data, bits)
quantize_mixed_precision(weights, layer_name, u) ==
    LET is_critical == \E critical \in critical_layers :
                           Contains(critical, layer_name)
        r == IF is_critical THEN quantize_int8(weights, u)
             ELSE quantize_int4(weights, u)
    IN  IF r.kind = "raise" THEN r
        ELSE [kind |-> "tuple", data |-> r,
              bits |-> IF is_critical THEN 8 ELSE 4]

----------------------------------------------------------------------------
(* Tool results: what one run over a one-tensor state_dict leaves behind *)

NoEntry == [kind |-> "none"]

\* param.element_size()
ElementSize(dtype) == IF dtype = "float32" THEN 4 ELSE 8

\* weights.nbytes, param.numel() * param.element_size()
NBytes(p) == Len(p.data) * ElementSize(p.dtype)

Failed(err) ==
    [error |-> err, entry |-> NoEntry,
     total_original_size |-> 0, total_quantized_size |-> 0]

\* the end of a conversion loop: the ratio total_original / total_quantized is
\* a Python division, which raises ZeroDivisionError on a zero divisor, and the
\* quantized_state built so far is then never returned
Finished(entry, original, quantized) ==
    [error |-> IF quantized = 0 THEN "ZeroDivisionError" ELSE "none",
     entry |-> IF quantized = 0 THEN NoEntry ELSE entry,
     total_original_size |-> original, total_quantized_size |-> quantized]

\* the total length of blocks lo..hi, summed by halves
RECURSIVE SumLenRange(_, _, _)
SumLenRange(blocks, lo, hi) ==
    IF lo > hi THEN 0
    ELSE IF lo = hi THEN Len(blocks[lo])
    ELSE LET mid == (lo + hi) \div 2
         IN  SumLenRange(blocks, lo, mid) + SumLenRange(blocks, mid + 1, hi)

SumLen(blocks) == SumLenRange(blocks, 1, Len(blocks))

\* np.array(scales).nbytes: float32 scales, widened to float64 by a Python 1.0
ScalesNBytes(scales) ==
    Len(scales) * (IF \E k \in DOMAIN scales : scales[k] = FOfInt(1) THEN 8 ELSE 4)

DefaultBlockSize == 128

Methods == {"int4", "int8", "mixed", "block"}

advanced_quantization(p, name, method, u) ==
    IF p.dtype = "float32" /\ Rank(p.shape) >= 2
    THEN LET mixed == quantize_mixed_precision(p, name, u)
             bits == IF mixed.kind = "tuple" THEN mixed.bits ELSE 0
             quantized_data ==
                 CASE method = "int4"  -> quantize_int4(p, u)
                   [] method = "int8"  -> quantize_int8(p, u)
                   [] method = "mixed" ->
                        IF mixed.kind = "tuple" THEN mixed.data ELSE mixed
                   [] method = "block" -> quantize_block_wise(p, DefaultBlockSize, u)
             entry == [kind |-> "quantized", data |-> quantized_data,
                       method |-> method, original_shape |-> p.shape]
         IN  IF quantized_data.kind = "raise" THEN Failed(quantized_data.error)
             ELSE IF method = "int4"
             THEN Finished(entry, NBytes(p), Len(quantized_data.packed_weights) + 16)
             ELSE IF method = "int8"
             THEN Finished(entry, NBytes(p), Len(quantized_data.weights) + 16)
             ELSE IF method = "mixed"
             THEN IF bits = 8
                  THEN Finished(entry, NBytes(p),
                                Len(quantized_data.weights) + 16)
                  ELSE Finished(entry, NBytes(p),
                                Len(quantized_data.packed_weights) + 16)
             \* quantized_data['blocks'] on the tuple of the short-tensor path
             ELSE IF quantized_data.kind = "tuple" THEN Failed("TypeError")
             ELSE Finished(entry, NBytes(p),
                           SumLen(quantized_data.blocks)
                           + ScalesNBytes(quantized_data.scales)
                           + 4 * Len(quantized_data.zero_points) + 32)
    ELSE Finished([kind |-> "original", weights |-> p.data, dtype |-> p.dtype,
                   shape |-> p.shape, method |-> "none"],
                  NBytes(p), NBytes(p))

----------------------------------------------------------------------------
(* whisper_proper_quantization.py *)

quantize_weights_to_int8(p, u) ==
    IF p.dtype = "float32" /\ Rank(p.shape) >= 2
    THEN IF Len(p.data) = 0 THEN Failed("ValueError")
         ELSE
         LET w_min == ArrMin(p.data)
             w_max == ArrMax(p.data)
             scale == Int8Scale(w_min, w_max)
             zero_point == Int8ZeroPoint(w_min, scale)
         IN  Finished([kind |-> "int8",
                       weights |-> Int8Codes(p.data, scale, zero_point, u),
                       scale |-> scale, zero_point |-> zero_point,
                       shape |-> p.shape],
                      NBytes(p), Len(p.data) + 8)
    ELSE Finished([kind |-> "original", weights |-> p.data, dtype |-> p.dtype,
                   shape |-> p.shape],
                  NBytes(p), NBytes(p))

\* mutant: the zero point added instead of subtracted
Dequantize_AddZeroPoint(weights, scale, zero_point) ==
    [i \in DOMAIN weights |-> FMul(FAdd(FOfInt(weights[i]), zero_point), scale)]

\* (weights.astype(np.float32) - zero_point) * scale, elementwise
Dequantize(weights, scale, zero_point) ==
    [i \in DOMAIN weights |-> FMul(FSub(FOfInt(weights[i]), zero_point), scale)]

\* mutant: the stored array of an unquantized tensor read as int8 codes
load_and_dequantize_CastOriginal(data) ==
    IF data.kind = "original"
    THEN [kind |-> "tensor", dtype |-> data.dtype, shape |-> data.shape,
          data |-> [i \in DOMAIN data.weights |->
                       FOfInt(AsInt8(data.weights[i], 0))]]
    ELSE [kind |-> "tensor", dtype |-> "float32", shape |-> data.shape,
          data |-> Dequantize(data.weights, data.scale, data.zero_point)]

load_and_dequantize(data) ==
    IF data.kind = "original"
    THEN [kind |-> "tensor", dtype |-> data.dtype, shape |-> data.shape,
          data |-> data.weights]
    ELSE [kind |-> "tensor", dtype |-> "float32", shape |-> data.shape,
          data |-> Dequantize(data.weights, data.scale, data.zero_point)]

----------------------------------------------------------------------------
(* float16 narrowing: param.half(), astype(np.float16) *)

RECURSIVE Pow2(_)
Pow2(e) == IF e = 0 THEN 1 ELSE 2 * Pow2(e - 1)

FPow2(e) == IF e >= 0 THEN FOfInt(Pow2(e)) ELSE FNorm(1, Pow2(-e))

\* the binade of a: the e in -14..16 with a < 2^(e+1), -14 for subnormals
RECURSIVE F16Exp(_, _)
F16Exp(a, e) == IF e >= 16 \/ FLt(a, FPow2(e + 1)) THEN e ELSE F16Exp(a, e + 1)

\* round to 11 significant bits, ties to even; overflow past 65504 is an infinity
ToFloat16(x) ==
    IF ~IsFinite(x) \/ x.n = 0 THEN x
    ELSE LET a == FAbs(x)
             quantum == FPow2(F16Exp(a, -14) - 10)
             r == FMul(FOfInt(RoundHalfEven(FDiv(a, quantum))), quantum)
         IN  IF FLt(FOfInt(65504), r) THEN FNorm(Sign(x.n), 0)
             ELSE FMul(FOfInt(Sign(x.n)), r)

Half(data) == [i \in DOMAIN data |-> ToFloat16(data[i])]

----------------------------------------------------------------------------
(* mixed_precision_quantization.py *)

\* mutant: tensors of exactly 1000 elements quantized as well
Int8Threshold_Inclusive == 1000 - 1

Int8Threshold == 1000

mixed_precision_quantization(p, u) ==
    IF p.dtype = "float32"
    THEN IF Rank(p.shape) >= 2 /\ Len(p.data) > Int8Threshold
         THEN LET w_min == ArrMin(p.data)
                  w_max == ArrMax(p.data)
                  scale == Int8Scale(w_min, w_max)
                  zero_point == Int8ZeroPoint(w_min, scale)
              IN  Finished([kind |-> "int8", dtype |-> "int8",
                            weights |-> Int8Codes(p.data, scale, zero_point, u),
                            scale |-> scale, zero_point |-> zero_point,
                            shape |-> p.shape],
                           NBytes(p), Len(p.data) + 16)
         ELSE IF Len(p.data) > 1
         THEN Finished([kind |-> "float16", dtype |-> "float16",
                        weights |-> Half(p.data), shape |-> p.shape],
                       NBytes(p), Len(p.data) * 2)
         ELSE Finished([kind |-> "original", dtype |-> "float32",
                        weights |-> p.data, shape |-> p.shape],
                       NBytes(p), NBytes(p))
    ELSE Finished([kind |-> "original", dtype |-> "torch.int64",
                   weights |-> p.data, shape |-> p.shape],
                  NBytes(p), NBytes(p))

load_mixed_precision_model(data) ==
    IF data.dtype = "int8"
    THEN [kind |-> "tensor", dtype |-> "float32", shape |-> data.shape,
          data |-> Dequantize(data.weights, data.scale, data.zero_point)]
    ELSE IF data.dtype = "float16"
    THEN [kind |-> "tensor", dtype |-> "float32", shape |-> data.shape,
          data |-> data.weights]
    ELSE [kind |-> "tensor",
          dtype |-> IF data.dtype = "torch.int64" THEN "int64" ELSE data.dtype,
          shape |-> data.shape, data |-> data.weights]

----------------------------------------------------------------------------
(* simple_quantization.py *)

\* quantized_dict[name] with its _scale, _zero_point and _is_quantized
\* companions; the final ratio divides by the size of the saved file, which is
\* never zero
simple_quantization(p, u) ==
    LET Saved(entry, quantized) ==
            [error |-> "none", entry |-> entry,
             total_original_size |-> NBytes(p),
             total_quantized_size |-> quantized]
    IN
    IF p.dtype = "float32" /\ Rank(p.shape) >= 2 /\ Len(p.data) > Int8Threshold
    THEN LET w_min == ArrMin(p.data)
             w_max == ArrMax(p.data)
             scale == Int8Scale(w_min, w_max)
             zero_point == Int8ZeroPoint(w_min, scale)
             quantized == Int8Codes(p.data, scale, zero_point, u)
         IN  Saved([kind |-> "int8", dtype |-> "int8", weights |-> quantized,
                    scale |-> scale, zero_point |-> zero_point,
                    shape |-> p.shape, is_quantized |-> TRUE],
                   Len(quantized) + 8)
    ELSE IF p.dtype = "float32"
    THEN Saved([kind |-> "float16", dtype |-> "float16",
                weights |-> Half(p.data), shape |-> p.shape,
                is_quantized |-> FALSE],
               Len(p.data) * 2)
    ELSE Saved([kind |-> "original", dtype |-> p.dtype, weights |-> p.data,
                shape |-> p.shape, is_quantized |-> FALSE],
               NBytes(p))

----------------------------------------------------------------------------
(* real_quantization.py: one binary file and one metadata entry per tensor *)

\* mutant: the ndims field left out of the count
HeaderBytes_NoNdims(shape) == 4 * Len(shape)

\* the header: ndims and each dimension as a 4-byte int
HeaderBytes(shape) == 4 + 4 * Len(shape)

\* the branch of the loop body that stores the tensor
SaveScheme(p) ==
    IF p.dtype = "float32" /\ Rank(p.shape) >= 2 /\ Len(p.data) > Int8Threshold
    THEN "int8"
    ELSE IF p.dtype = "float32" /\ Len(p.data) > 1 THEN "float16"
    ELSE "float32"

\* the bytes of the payload: quantized.tobytes(), weights.tobytes()
PayloadBytes(p) ==
    IF SaveScheme(p) = "int8" THEN Len(p.data)
    ELSE IF SaveScheme(p) = "float16" THEN 2 * Len(p.data)
    ELSE NBytes(p)

\* the fields of the file in the order of the f.write calls, with their sizes
FileLayout(p) ==
    <<[field |-> "ndims", bytes |-> 4]>>
    \o [k \in 1..Len(p.shape) |-> [field |-> "dim", bytes |-> 4]]
    \o (IF SaveScheme(p) = "int8"
        THEN <<[field |-> "scale", bytes |-> 8],
               [field |-> "zero_point", bytes |-> 8]>>
        ELSE <<>>)
    \o <<[field |-> "bits", bytes |-> 1],
         [field |-> "payload", bytes |-> PayloadBytes(p)]>>

\* what the loop body writes to param_file
ParamFile(p, u) ==
    IF SaveScheme(p) = "int8"
    THEN LET w_min == ArrMin(p.data)
             w_max == ArrMax(p.data)
             scale == Int8Scale(w_min, w_max)
             zero_point == Int8ZeroPoint(w_min, scale)
             quantized == Int8Codes(p.data, scale, zero_point, u)
         IN  [ndims |-> Len(p.shape), dims |-> p.shape, scale |-> scale,
              zero_point |-> zero_point, bits |-> 8, payload |-> quantized,
              layout |-> FileLayout(p),
              size |-> HeaderBytes(p.shape) + 8 + 8 + 1 + Len(quantized)]
    ELSE IF SaveScheme(p) = "float16"
    THEN [ndims |-> Len(p.shape), dims |-> p.shape, bits |-> 16,
          payload |-> Half(p.data), layout |-> FileLayout(p),
          size |-> HeaderBytes(p.shape) + 1 + 2 * Len(p.data)]
    ELSE [ndims |-> Len(p.shape), dims |-> p.shape, bits |-> 32,
          payload |-> p.data, layout |-> FileLayout(p),
          size |-> HeaderBytes(p.shape) + 1 + NBytes(p)]

\* metadata['parameters'][name], without its 'file' item
ParamMeta(p) ==
    IF SaveScheme(p) = "int8"
    THEN LET w_min == ArrMin(p.data)
             w_max == ArrMax(p.data)
             scale == Int8Scale(w_min, w_max)
         IN  [type |-> "int8", shape |-> p.shape, scale |-> scale,
              zero_point |-> Int8ZeroPoint(w_min, scale)]
    ELSE [type |-> SaveScheme(p), shape |-> p.shape]

\* the run over a state_dict of the one tensor p, in a new directory
quantize_and_save_real(p, u) ==
    LET original_size == NBytes(p)
        file == ParamFile(p, u)
    IN  [error |-> IF original_size = 0 THEN "ZeroDivisionError" ELSE "none",
         entry |-> [kind |-> "file", file |-> file, meta |-> ParamMeta(p)],
         total_original_size |-> original_size,
         total_quantized_size |-> file.size]

----------------------------------------------------------------------------
(* real_quantization.py step by step: the output directory and the archive *)

\* param_file = output_dir / f"{name.replace('.', '_')}.bin": the replace
RECURSIVE ReplaceDots(_)
ReplaceDots(name) ==
    IF Len(name) = 0 THEN ""
    ELSE (IF SubSeq(name, 1, 1) = "." THEN "_" ELSE SubSeq(name, 1, 1))
         \o ReplaceDots(SubSeq(name, 2, Len(name)))

\* param_file.name
FileName(name) == ReplaceDots(name) \o ".bin"

\* no such file in the directory
Absent == [stage |-> "absent"]

\* open(param_file, 'wb'): the file exists and is empty
Opened(name, r) ==
    [stage |-> "empty", name |-> name, run |-> r, cut |-> 0, content |-> NoEntry]

\* the header has reached the file, the payload has not
HeaderWritten(name, r) ==
    [stage |-> "header", name |-> name, run |-> r, cut |-> 0, content |-> NoEntry]

\* the file is written and closed
Closed(name, r, content) ==
    [stage |-> "complete", name |-> name, run |-> r, cut |-> 0,
     content |-> content]

\* mutant: the entries keyed by their file name
DictSet_ByFile(d, name, info) ==
    IF \E k \in DOMAIN d : d[k].info.file = info.file
    THEN [k \in DOMAIN d |-> IF d[k].info.file = info.file
                             THEN [name |-> name, info |-> info] ELSE d[k]]
    ELSE Append(d, [name |-> name, info |-> info])

\* d[name] = info on a Python dict: a new key goes last, a key already there
\* keeps its place
DictSet(d, name, info) ==
    IF \E k \in DOMAIN d : d[k].name = name
    THEN [k \in DOMAIN d |-> IF d[k].name = name
                             THEN [name |-> name, info |-> info] ELSE d[k]]
    ELSE Append(d, [name |-> name, info |-> info])

\* the bytes of a file of the archive
BytesOf(file) ==
    IF file.stage = "complete" THEN file.content.size + file.cut ELSE 0

\* list(metadata['parameters'].items())[:3]
TestedParameters == 3

\* the body of test_loading_quantized_model's loop for one entry: "ok", or the
\* exception raised; np.prod of an empty shape is the float 1.0, which f.read
\* refuses
LoadParam(info, file) ==
    IF file.stage = "absent" THEN "FileNotFoundError"
    ELSE IF file.stage # "complete" THEN "struct.error"
    ELSE
    LET shape == file.content.dims
        body == BytesOf(file) - HeaderBytes(shape)
        MinRead(n, have) == IF have < n THEN (IF have < 0 THEN 0 ELSE have) ELSE n
    IN  IF info.type = "int8"
        THEN IF body < 8 + 8 + 1 THEN "struct.error"
             ELSE IF Len(shape) = 0 THEN "TypeError"
             ELSE LET data_size == Numel(shape)
                      got == MinRead(data_size, body - 17)
                  IN  IF got # Numel(shape) THEN "ValueError" ELSE "ok"
        ELSE IF info.type = "float16"
        THEN IF body < 1 THEN "struct.error"
             ELSE IF Len(shape) = 0 THEN "TypeError"
             ELSE LET data_size == Numel(shape) * 2
                      got == MinRead(data_size, body - 1)
                  IN  IF got % 2 # 0 THEN "ValueError"
                      ELSE IF got \div 2 # Numel(shape) THEN "ValueError"
                      ELSE "ok"
        ELSE "ok"

\* the loop over the first entries of the metadata, from entry k on
RECURSIVE LoadFrom(_, _, _)
LoadFrom(a, k, loaded_count) ==
    IF k > Len(a.parameters) \/ k > TestedParameters
    THEN [error |-> "none", loaded_count |-> loaded_count]
    ELSE LET info == a.parameters[k].info
             r == LoadParam(info, a.files[info.file])
         IN  IF r # "ok"
             THEN [error |-> r, loaded_count |-> loaded_count]
             ELSE LoadFrom(a, k + 1, loaded_count + 1)

test_loading_quantized_model(a) == LoadFrom(a, 1, 0)

\* tensor names; two of them differ only in a '.' against a '_'
SaveNames ==
    {"encoder.conv1.weight", "encoder.conv1_weight", "decoder.ln.bias"}

AllFiles == {FileName(n) : n \in SaveNames}

NoArchive == [kind |-> "none"]

NoMetadataJson == [state |-> "absent"]

\* the variables of real_quantization.py while another script runs
SaveIdle ==
    /\ state_dict = <<>>
    /\ spc = "idle"
    /\ idx = 0
    /\ files = [f \in AllFiles |-> Absent]
    /\ metadata = <<>>
    /\ metadata_json = NoMetadataJson
    /\ sizes = [original |-> 0, compressed |-> 0]
    /\ run = 0
    /\ write_log = <<>>
    /\ archive = NoArchive
    /\ loaded = NoEntry

----------------------------------------------------------------------------
(* quantize_model.py: quantize_mlmodelc on each component of the model *)

\* components, in the order of the loop of quantize_whisper_medium
Components ==
    <<"AudioEncoder.mlmodelc", "TextDecoder.mlmodelc", "MelSpectrogram.mlmodelc">>

\* the non-model files, in the order of the copy loop
ConfigFiles ==
    <<"config.json", "generation_config.json", "tokenizer.json",
      "tokenizer_config.json">>

\* the entries a model directory may hold
ModelEntries ==
    {Components[k] : k \in DOMAIN Components}
    \cup {ConfigFiles[k] : k \in DOMAIN ConfigFiles}

\* mutant: bits other than 4 and 8 passed on to quantize_weights
QuantizeNBits_AnyBits(b) == b

\* the nbits of the branch quantize_mlmodelc takes; 0 is the else branch
QuantizeNBits(b) == IF b = 8 THEN 8 ELSE IF b = 4 THEN 4 ELSE 0

\* the variables of quantize_model.py while another script runs
ModelIdle ==
    /\ arg_bits = 0
    /\ present = {}
    /\ component = 0
    /\ mpc = "idle"
    /\ lib_calls = <<>>
    /\ output = [e \in ModelEntries |-> "absent"]

----------------------------------------------------------------------------
(* replace_app_models.py *)

\* mutant: the path returned also when the copy failed
create_backup_ReturnsPathOnFailure(dir, copied) ==
    IF dir # "absent" THEN [backup |-> dir, result |-> "path"]
    ELSE [backup |-> copied, result |-> "path"]

\* create_backup on the backup directory dir, 'copied' being what copytree
\* leaves: the directory already there is returned as it is; otherwise the
\* path after a complete copy, None after a copytree that raised
create_backup(dir, copied) ==
    IF dir # "absent" THEN [backup |-> dir, result |-> "path"]
    ELSE [backup |-> copied,
          result |-> IF copied = "copied" THEN "path" ELSE "None"]

\* test_quantized_models: the models of models_to_test that exist and load,
\* in order
test_quantized_models(encoder, mel) ==
    (IF encoder = "loadable" THEN <<"AudioEncoder_quantized.mlmodelc">> ELSE <<>>)
    \o (IF mel = "loadable" THEN <<"MelSpectrogram.mlmodelc">> ELSE <<>>)

\* the original AudioEncoder.mlmodelc as the run found it: a directory, a
\* file, or not there
Untouched == {"dir", "file", "missing"}

\* the variables of replace_app_models.py while another script runs
AppIdle ==
    /\ backup = "absent"
    /\ app_encoder = "missing"
    /\ quantized_encoder = "absent"
    /\ mel_spectrogram = "absent"
    /\ backup_dir = "unset"
    /\ working_models = <<>>
    /\ apc = "idle"

----------------------------------------------------------------------------
(* quantize_whisper_model.py *)

\* the models main looks for in model_dir
models_to_quantize == <<"AudioEncoder.mlmodelc", "TextDecoder.mlmodelc">>

\* the .mlmodel files a downloaded openai_whisper-medium directory may hold
DownloadedModels ==
    <<"AudioEncoder.mlmodel", "MelSpectrogram.mlmodel", "TextDecoder.mlmodel",
      "TextDecoderContextPrefill.mlmodel">>

\* the lists of entries of a directory that holds some of the entries of
\* all, in the order of all
Listings(all) ==
    {SelectSeq(all, LAMBDA e : e \in keep) :
        keep \in SUBSET {all[k] : k \in DOMAIN all}}

\* name.replace(old, new) on a str: every occurrence, from the left
RECURSIVE Replace(_, _, _)
Replace(name, old, new) ==
    IF Len(name) < Len(old) THEN name
    ELSE IF SubSeq(name, 1, Len(old)) = old
    THEN new \o Replace(SubSeq(name, Len(old) + 1, Len(name)), old, new)
    ELSE SubSeq(name, 1, 1) \o Replace(SubSeq(name, 2, Len(name)), old, new)

\* the variables of quantize_whisper_model.py while another script runs
WhisperIdle ==
    /\ model_files = <<>>
    /\ file_idx = 0
    /\ success_count = 0
    /\ original_models = <<>>
    /\ quantized_names = {}
    /\ summary = [printed |-> FALSE]
    /\ wpc = "idle"

\* no tensor is given to the one-tensor tools
NoParam == [dtype |-> "none", shape |-> <<>>, data |-> <<>>]

----------------------------------------------------------------------------
(* prune_for_turkish.py: get_turkish_vocabulary_mask *)

\* turkish_chars | english_chars | numbers | punctuation, as code points:
\* the ASCII letters, the digits, .,!?;:()[]{}"'-/ and the space, and the
\* Turkish letters outside ASCII
allowed_chars ==
    (65..90) \cup (97..122) \cup (48..57)
    \cup {46, 44, 33, 63, 59, 58, 40, 41, 91, 93, 123, 125, 34, 39, 45, 47, 32}
    \cup {231, 287, 305, 246, 351, 252, 199, 286, 304, 214, 350, 220}

TokenStr_Chr(id) == [raised |-> "None", str |-> <<id>>]

\* bytes([token_id]).decode('utf-8'): bytes raises ValueError for a value
\* outside range(0, 256), and one byte decodes only when it is below 128
TokenStr(id) ==
    IF id \notin 0..255 THEN [raised |-> "ValueError", str |-> <<>>]
    ELSE IF id >= 128 THEN [raised |-> "UnicodeDecodeError", str |-> <<>>]
    ELSE [raised |-> "None", str |-> <<id>>]

PruneIdle ==
    /\ vocab_size = 0
    /\ token_id = 0
    /\ vocab_mask = <<>>
    /\ kept_tokens = 0
    /\ ppc = "idle"

----------------------------------------------------------------------------
(* The state machine: one tool run on the tensor, then the matching loader *)

BlockSizes == {2, 3, DefaultBlockSize}

\* names of tensors of the Whisper state_dict
Names ==
    {"encoder.conv1.weight", "encoder.conv2.weight",
     "decoder.token_embedding.weight", "decoder.ln.weight",
     "encoder.ln_post.weight", "decoder.blocks.0.attn_ln.weight",
     "encoder.blocks.0.attn.query.weight"}

\* the name under which the tools that ignore names get the tensor
DefaultName == "encoder.blocks.0.attn.query.weight"

\* the variables of the one-tensor tools while another script runs
ToolIdle ==
    /\ param = NoParam
    /\ pc = "idle"
    /\ tool = "none"
    /\ arg_method = "none"
    /\ arg_block = 0
    /\ arg_name = DefaultName
    /\ q = NoEntry
    /\ deq = NoEntry
    /\ total = [original |-> 0, quantized |-> 0]

\* the (method, name) arguments of the runs of advanced_quantization
MethodCalls ==
    {c \in Methods \X Names : c[1] = "mixed" \/ c[2] = DefaultName}

Init ==
    /\ param \in Params
    /\ pc = "start"
    /\ tool = "none"
    /\ arg_method = "none"
    /\ arg_block = 0
    /\ arg_name = DefaultName
    /\ q = NoEntry
    /\ deq = NoEntry
    /\ total = [original |-> 0, quantized |-> 0]
    /\ SaveIdle
    /\ ModelIdle
    /\ AppIdle
    /\ WhisperIdle
    /\ PruneIdle

\* a direct call of an encoder function: the result or the exception
Call(name, r) ==
    /\ q' = r
    /\ pc' = IF r.kind = "raise" THEN r.error ELSE "quantized"
    /\ tool' = name
    /\ UNCHANGED <<param, deq, total, saveVars, scriptVars>>

\* a run of a conversion function over the state_dict
Run(name, r) ==
    /\ q' = r.entry
    /\ total' = [original |-> r.total_original_size,
                 quantized |-> r.total_quantized_size]
    /\ pc' = IF r.error = "none" THEN "quantized" ELSE r.error
    /\ tool' = name
    /\ UNCHANGED <<param, deq, saveVars, scriptVars>>

QuantizeInt8 ==
    /\ pc = "start"
    /\ param.dtype = "float32"
    /\ \E u \in UndefCast : Call("quantize_int8", quantize_int8(param, u))
    /\ UNCHANGED <<arg_method, arg_block, arg_name>>

QuantizeInt4 ==
    /\ pc = "start"
    /\ param.dtype = "float32"
    /\ \E u \in UndefCast : Call("quantize_int4", quantize_int4(param, u))
    /\ UNCHANGED <<arg_method, arg_block, arg_name>>

QuantizeBlockWise ==
    /\ pc = "start"
    /\ param.dtype = "float32"
    /\ \E u \in UndefCast, bs \in BlockSizes :
         /\ Call("quantize_block_wise", quantize_block_wise(param, bs, u))
         /\ arg_block' = bs
    /\ UNCHANGED <<arg_method, arg_name>>

QuantizeMixedPrecision ==
    /\ pc = "start"
    /\ param.dtype = "float32"
    /\ \E u \in UndefCast, nm \in Names :
         /\ Call("quantize_mixed_precision",
                 quantize_mixed_precision(param, nm, u))
         /\ arg_name' = nm
    /\ UNCHANGED <<arg_method, arg_block>>

AdvancedQuantization ==
    /\ pc = "start"
    /\ \E u \in UndefCast, c \in MethodCalls :
         /\ Run("advanced_quantization",
                advanced_quantization(param, c[2], c[1], u))
         /\ arg_method' = c[1]
         /\ arg_name' = c[2]
    /\ UNCHANGED arg_block

QuantizeWeightsToInt8 ==
    /\ pc = "start"
    /\ \E u \in UndefCast :
         Run("quantize_weights_to_int8", quantize_weights_to_int8(param, u))
    /\ UNCHANGED <<arg_method, arg_block, arg_name>>

MixedPrecisionQuantization ==
    /\ pc = "start"
    /\ \E u \in UndefCast :
         Run("mixed_precision_quantization", mixed_precision_quantization(param, u))
    /\ UNCHANGED <<arg_method, arg_block, arg_name>>

QuantizeAndSaveReal ==
    /\ pc = "start"
    /\ \E u \in UndefCast :
         Run("quantize_and_save_real", quantize_and_save_real(param, u))
    /\ UNCHANGED <<arg_method, arg_block, arg_name>>

SimpleQuantization ==
    /\ pc = "start"
    /\ \E u \in UndefCast :
         Run("simple_quantization", simple_quantization(param, u))
    /\ UNCHANGED <<arg_method, arg_block, arg_name>>

LoadAndDequantize ==
    /\ pc = "quantized"
    /\ tool = "quantize_weights_to_int8"
    /\ deq' = load_and_dequantize(q)
    /\ pc' = "loaded"
    /\ UNCHANGED <<param, tool, arg_method, arg_block, arg_name, q, total>>
    /\ UNCHANGED <<saveVars, scriptVars>>

LoadMixedPrecisionModel ==
    /\ pc = "quantized"
    /\ tool = "mixed_precision_quantization"
    /\ deq' = load_mixed_precision_model(q)
    /\ pc' = "loaded"
    /\ UNCHANGED <<param, tool, arg_method, arg_block, arg_name, q, total>>
    /\ UNCHANGED <<saveVars, scriptVars>>

Next ==
    \/ QuantizeInt8
    \/ QuantizeInt4
    \/ QuantizeBlockWise
    \/ QuantizeMixedPrecision
    \/ AdvancedQuantization
    \/ QuantizeWeightsToInt8
    \/ MixedPrecisionQuantization
    \/ QuantizeAndSaveReal
    \/ SimpleQuantization
    \/ LoadAndDequantize
    \/ LoadMixedPrecisionModel

Spec == Init /\ [][Next]_vars

----------------------------------------------------------------------------
(* The state machine of real_quantization.py: main runs                     *)
(* quantize_and_save_real over the model's state_dict, then                 *)
(* test_loading_quantized_model on the archive; the script may be run a     *)
(* second time on the same model, in the directory the first run left       *)

\* the most tensors of a state_dict
MaxTensors == 2

\* the tensors of the model: an empty one, a vector and a large matrix
SaveTensors ==
    {[dtype |-> "float32", shape |-> <<0>>, data |-> <<>>],
     [dtype |-> "float32", shape |-> <<3>>, data |-> Pattern(3, 1, 0)],
     [dtype |-> "float32", shape |-> <<7, 143>>, data |-> Pattern(1001, 1, 0)]}

\* the state_dicts: up to MaxTensors tensors under distinct names
StateDicts ==
    {d \in UNION {[1..n -> [name : SaveNames, param : SaveTensors]] :
                     n \in 0..MaxTensors} :
        \A i, j \in DOMAIN d : d[i].name = d[j].name => i = j}

SaveInit ==
    /\ state_dict \in StateDicts
    /\ spc = "start"
    /\ idx = 0
    /\ files = [f \in AllFiles |-> Absent]
    /\ metadata = <<>>
    /\ metadata_json = NoMetadataJson
    /\ sizes = [original |-> 0, compressed |-> 0]
    /\ run = 0
    /\ write_log = <<>>
    /\ archive = NoArchive
    /\ loaded = NoEntry
    /\ ToolIdle
    /\ ModelIdle
    /\ AppIdle
    /\ WhisperIdle
    /\ PruneIdle

\* the positions at which a run has ended, by return or by an exception
Ended == {"returned", "ZeroDivisionError", "OSError"}

\* quantize_and_save_real is entered: mkdir(exist_ok=True) keeps what the
\* directory holds; the totals and the metadata start empty
Enter(r) ==
    /\ run' = r
    /\ spc' = "loop"
    /\ idx' = 1
    /\ metadata' = <<>>
    /\ sizes' = [original |-> 0, compressed |-> 0]
    /\ write_log' = <<>>
    /\ loaded' = NoEntry
    /\ UNCHANGED <<state_dict, files, metadata_json, archive, toolVars, scriptVars>>

SaveBegin ==
    /\ spc = "start"
    /\ Enter(1)

\* the script is run again after the first run ended
SaveAgain ==
    /\ spc \in Ended
    /\ run = 1
    /\ Enter(2)

\* the top of the loop body: original_size, then open(param_file, 'wb')
OpenParamFile ==
    /\ spc = "loop"
    /\ idx <= Len(state_dict)
    /\ LET name == state_dict[idx].name
           p == state_dict[idx].param
       IN  /\ sizes' = [sizes EXCEPT !.original = @ + NBytes(p)]
           /\ files' = [files EXCEPT ![FileName(name)] = Opened(name, run)]
    /\ spc' = "opened"
    /\ UNCHANGED <<state_dict, idx, metadata, metadata_json, run, write_log,
                   archive, loaded, toolVars, scriptVars>>

\* the header reaches the file
WriteHeader ==
    /\ spc = "opened"
    /\ LET name == state_dict[idx].name
       IN  files' = [files EXCEPT ![FileName(name)] = HeaderWritten(name, run)]
    /\ spc' = "header"
    /\ UNCHANGED <<state_dict, idx, metadata, metadata_json, sizes, run,
                   write_log, archive, loaded, toolVars, scriptVars>>

\* the payload reaches the file and the file is closed
WritePayload ==
    /\ spc = "header"
    /\ \E u \in UndefCast :
         LET name == state_dict[idx].name
             p == state_dict[idx].param
         IN  files' = [files EXCEPT ![FileName(name)] =
                          Closed(name, run, ParamFile(p, u))]
    /\ write_log' = Append(write_log, state_dict[idx].name)
    /\ spc' = "written"
    /\ UNCHANGED <<state_dict, idx, metadata, metadata_json, sizes, run,
                   archive, loaded, toolVars, scriptVars>>

\* metadata['parameters'][name] = {...}; total_compressed_size += st_size
RecordMetadata ==
    /\ spc = "written"
    /\ LET name == state_dict[idx].name
           p == state_dict[idx].param
           info == ("file" :> FileName(name)) @@ ParamMeta(p)
       IN  /\ metadata' = DictSet(metadata, name, info)
           /\ sizes' = [sizes EXCEPT !.compressed =
                           @ + BytesOf(files[FileName(name)])]
    /\ idx' = idx + 1
    /\ spc' = "loop"
    /\ UNCHANGED <<state_dict, files, metadata_json, run, write_log, archive,
                   loaded, toolVars, scriptVars>>

\* after the loop: open(output_dir / "metadata.json", 'w')
OpenMetadata ==
    /\ spc = "loop"
    /\ idx > Len(state_dict)
    /\ metadata_json' = [state |-> "empty", run |-> run, parameters |-> <<>>]
    /\ spc' = "metadata_opened"
    /\ UNCHANGED <<state_dict, idx, files, metadata, sizes, run, write_log,
                   archive, loaded, toolVars, scriptVars>>

\* json.dump(metadata, f)
DumpMetadata ==
    /\ spc = "metadata_opened"
    /\ metadata_json' = [state |-> "complete", run |-> run,
                         parameters |-> metadata]
    /\ spc' = "dumped"
    /\ UNCHANGED <<state_dict, idx, files, metadata, sizes, run, write_log,
                   archive, loaded, toolVars, scriptVars>>

\* tar.add(output_dir), then the ratios: total_original_size divides
MakeArchive ==
    /\ spc = "dumped"
    /\ archive' = [kind |-> "archive", files |-> files,
                   parameters |-> metadata_json.parameters]
    /\ spc' = IF sizes.original = 0 THEN "ZeroDivisionError" ELSE "returned"
    /\ UNCHANGED <<state_dict, idx, files, metadata, metadata_json, sizes, run,
                   write_log, loaded, toolVars, scriptVars>>

\* an open or a write raises OSError (a full disk, a lost permission)
WriteFails ==
    /\ \/ spc \in {"opened", "header", "metadata_opened", "dumped"}
       \/ spc = "loop" /\ idx <= Len(state_dict)
    /\ spc' = "OSError"
    /\ UNCHANGED <<state_dict, idx, files, metadata, metadata_json, sizes, run,
                   write_log, archive, loaded, toolVars, scriptVars>>

\* the archive with one of its files a byte shorter or a byte longer
CutArchives(a) ==
    {[a EXCEPT !.files[f].cut = c] :
        f \in {g \in AllFiles : a.files[g].stage = "complete"}, c \in {-1, 1}}

\* the archive with one entry of its metadata under a type tag that
\* quantize_and_save_real never writes
ForeignArchives(a) ==
    {[a EXCEPT !.parameters[k].info.type = "99"] : k \in DOMAIN a.parameters}

\* main: test_loading_quantized_model(archive_path), on the archive just
\* written; or the function is given an archive that differs from it in one
\* file's length or in one type tag
TestLoadingQuantizedModel ==
    /\ spc = "returned"
    /\ loaded = NoEntry
    /\ \E a \in {archive} \cup CutArchives(archive) \cup ForeignArchives(archive) :
         loaded' = [kind |-> "result", given |-> a,
                    outcome |-> test_loading_quantized_model(a)]
    /\ UNCHANGED <<state_dict, spc, idx, files, metadata, metadata_json, sizes,
                   run, write_log, archive, toolVars, scriptVars>>

SaveNext ==
    \/ SaveBegin
    \/ SaveAgain
    \/ OpenParamFile
    \/ WriteHeader
    \/ WritePayload
    \/ RecordMetadata
    \/ OpenMetadata
    \/ DumpMetadata
    \/ MakeArchive
    \/ WriteFails
    \/ TestLoadingQuantizedModel

SaveSpec == SaveInit /\ [][SaveNext]_vars

----------------------------------------------------------------------------
(* The state machine of quantize_model.py: quantize_whisper_medium calls     *)
(* quantize_mlmodelc on each component that base_path holds, then copies    *)
(* the non-model files; an exception of quantize_mlmodelc ends the script   *)

ModelInit ==
    /\ arg_bits \in {2, 4, 8, 16}
    /\ present \in SUBSET ModelEntries
    /\ component = 0
    /\ mpc = "start"
    /\ lib_calls = <<>>
    /\ output = [e \in ModelEntries |-> "absent"]
    /\ ToolIdle
    /\ SaveIdle
    /\ AppIdle
    /\ WhisperIdle
    /\ PruneIdle

\* os.makedirs(quantized_path, exist_ok=True); quantize_whisper_medium(...)
QuantizeWhisperMedium ==
    /\ mpc = "start"
    /\ mpc' = "loop"
    /\ component' = 1
    /\ UNCHANGED <<arg_bits, present, lib_calls, output,
                   toolVars, saveVars, appVars, whisperVars, pruneVars>>

\* os.path.exists(input_path) is false: the warning, and the next component
ComponentNotFound ==
    /\ mpc = "loop"
    /\ component <= Len(Components)
    /\ Components[component] \notin present
    /\ component' = component + 1
    /\ UNCHANGED <<arg_bits, present, mpc, lib_calls, output,
                   toolVars, saveVars, appVars, whisperVars, pruneVars>>

\* quantize_mlmodelc(input_path, output_path, bits=bits) is entered
QuantizeMlmodelc ==
    /\ mpc = "loop"
    /\ component <= Len(Components)
    /\ Components[component] \in present
    /\ mpc' = "called"
    /\ UNCHANGED <<arg_bits, present, component, lib_calls, output,
                   toolVars, saveVars, appVars, whisperVars, pruneVars>>

\* model = ct.models.MLModel(input_path), which may raise
LoadModel ==
    /\ mpc = "called"
    /\ \E ok \in BOOLEAN :
         /\ lib_calls' = Append(lib_calls,
                                [call |-> "MLModel",
                                 path |-> Components[component],
                                 nbits |-> 0, ok |-> ok])
         /\ mpc' = IF ok THEN "loaded" ELSE "LoadError"
    /\ UNCHANGED <<arg_bits, present, component, output,
                   toolVars, saveVars, appVars, whisperVars, pruneVars>>

\* the else branch: raise ValueError("bits must be 4 or 8")
RaiseValueError ==
    /\ mpc = "loaded"
    /\ QuantizeNBits(arg_bits) = 0
    /\ mpc' = "ValueError"
    /\ UNCHANGED <<arg_bits, present, component, lib_calls, output,
                   toolVars, saveVars, appVars, whisperVars, pruneVars>>

\* quantized_model = quantize_weights(model, nbits=...), which may raise
QuantizeWeights ==
    /\ mpc = "loaded"
    /\ QuantizeNBits(arg_bits) # 0
    /\ \E ok \in BOOLEAN :
         /\ lib_calls' = Append(lib_calls,
                                [call |-> "quantize_weights",
                                 path |-> Components[component],
                                 nbits |-> QuantizeNBits(arg_bits), ok |-> ok])
         /\ mpc' = IF ok THEN "quantized" ELSE "QuantizeError"
    /\ UNCHANGED <<arg_bits, present, component, output,
                   toolVars, saveVars, appVars, whisperVars, pruneVars>>

\* quantized_model.save(output_path) and the return; a save that raises may
\* leave a part of the model at output_path
SaveQuantizedModel ==
    /\ mpc = "quantized"
    /\ \E ok \in BOOLEAN :
         /\ lib_calls' = Append(lib_calls,
                                [call |-> "save",
                                 path |-> Components[component],
                                 nbits |-> 0, ok |-> ok])
         /\ IF ok
            THEN /\ output' = [output EXCEPT ![Components[component]] = "saved"]
                 /\ mpc' = "loop"
                 /\ component' = component + 1
            ELSE /\ \E left \in {output[Components[component]], "partial"} :
                      output' = [output EXCEPT ![Components[component]] = left]
                 /\ mpc' = "SaveError"
                 /\ UNCHANGED component
    /\ UNCHANGED <<arg_bits, present,
                   toolVars, saveVars, appVars, whisperVars, pruneVars>>

\* the loop of shutil.copy2 over the non-model files that exist: all of them,
\* or the files before the one whose copy raises
CopyNonModelFiles ==
    /\ mpc = "loop"
    /\ component > Len(Components)
    /\ \E n \in 0..Len(ConfigFiles) :
         /\ n < Len(ConfigFiles) => ConfigFiles[n + 1] \in present
         /\ output' = [e \in ModelEntries |->
                          IF \E k \in 1..n : ConfigFiles[k] = e /\ e \in present
                          THEN "copied" ELSE output[e]]
         /\ mpc' = IF n = Len(ConfigFiles) THEN "done" ELSE "CopyError"
    /\ UNCHANGED <<arg_bits, present, component, lib_calls,
                   toolVars, saveVars, appVars, whisperVars, pruneVars>>

ModelNext ==
    \/ QuantizeWhisperMedium
    \/ ComponentNotFound
    \/ QuantizeMlmodelc
    \/ LoadModel
    \/ RaiseValueError
    \/ QuantizeWeights
    \/ SaveQuantizedModel
    \/ CopyNonModelFiles

ModelSpec == ModelInit /\ [][ModelNext]_vars

----------------------------------------------------------------------------
(* The state machine of replace_app_models.py: main makes the backup, tests  *)
(* the quantized models and replaces the app's AudioEncoder                  *)

\* a model of the working directory is not there, or MLModel loads it, or
\* MLModel fails to load it; the backup directory may be left by an earlier run
ReplaceInit ==
    /\ backup \in {"absent", "old", "old_partial"}
    /\ app_encoder \in Untouched
    /\ quantized_encoder \in {"absent", "loadable", "broken"}
    /\ mel_spectrogram \in {"absent", "loadable", "broken"}
    /\ backup_dir = "unset"
    /\ working_models = <<>>
    /\ apc = "start"
    /\ ToolIdle
    /\ SaveIdle
    /\ ModelIdle
    /\ WhisperIdle
    /\ PruneIdle

\* Step 1: backup_dir = create_backup(); if not backup_dir: return; copytree
\* may leave all of a new backup, a part of it or nothing
CreateBackup ==
    /\ apc = "start"
    /\ \E copied \in {"copied", "partial", "absent"} :
         LET r == create_backup(backup, copied)
         IN  /\ backup' = r.backup
             /\ backup_dir' = r.result
             /\ apc' = IF r.result = "None" THEN "no_backup" ELSE "backed_up"
    /\ UNCHANGED <<app_encoder, quantized_encoder, mel_spectrogram,
                   working_models,
                   toolVars, saveVars, modelVars, whisperVars, pruneVars>>

\* Step 2: working_models = test_quantized_models(); if not working_models:
\* return
TestQuantizedModels ==
    /\ apc = "backed_up"
    /\ working_models' = test_quantized_models(quantized_encoder, mel_spectrogram)
    /\ apc' = IF working_models' = <<>> THEN "no_models" ELSE "tested"
    /\ UNCHANGED <<backup, app_encoder, quantized_encoder, mel_spectrogram,
                   backup_dir,
                   toolVars, saveVars, modelVars, whisperVars, pruneVars>>

\* Step 3, replace_audioencoder up to the removal: the two exists() tests
\* return False; the sizes and the savings line may raise (an empty original
\* divides by zero), which the except turns into False
ReplaceAudioencoder ==
    /\ apc = "tested"
    /\ IF quantized_encoder = "absent" \/ app_encoder = "missing"
       THEN apc' = "failed"
       ELSE \E ok \in BOOLEAN : apc' = IF ok THEN "sized" ELSE "failed"
    /\ UNCHANGED <<backup, app_encoder, quantized_encoder, mel_spectrogram,
                   backup_dir, working_models,
                   toolVars, saveVars, modelVars, whisperVars, pruneVars>>

\* shutil.rmtree(original_encoder) or original_encoder.unlink(); an rmtree
\* that raises may have removed a part of the directory
RemoveOriginal ==
    /\ apc = "sized"
    /\ \E ok \in BOOLEAN :
         IF ok
         THEN app_encoder' = "removed" /\ apc' = "removed"
         ELSE /\ \E left \in {app_encoder} \cup
                     (IF app_encoder = "dir" THEN {"partly_removed"} ELSE {}) :
                   app_encoder' = left
              /\ apc' = "failed"
    /\ UNCHANGED <<backup, quantized_encoder, mel_spectrogram, backup_dir,
                   working_models,
                   toolVars, saveVars, modelVars, whisperVars, pruneVars>>

\* shutil.copytree(quantized_encoder, original_encoder), then the size of
\* the copy; a copytree that raises leaves a part of the copy or nothing
CopyQuantized ==
    /\ apc = "removed"
    /\ \E ok \in BOOLEAN :
         IF ok
         THEN /\ app_encoder' = IF quantized_encoder = "loadable"
                                THEN "quantized" ELSE "broken"
              /\ \E sized \in BOOLEAN :
                    apc' = IF sized THEN "replaced" ELSE "failed"
         ELSE /\ \E left \in {"removed", "partly_copied"} : app_encoder' = left
              /\ apc' = "failed"
    /\ UNCHANGED <<backup, quantized_encoder, mel_spectrogram, backup_dir,
                   working_models,
                   toolVars, saveVars, modelVars, whisperVars, pruneVars>>

\* Step 4: show_final_status() and the closing messages
ShowFinalStatus ==
    /\ apc = "replaced"
    /\ apc' = "done"
    /\ UNCHANGED <<backup, app_encoder, quantized_encoder, mel_spectrogram,
                   backup_dir, working_models,
                   toolVars, saveVars, modelVars, whisperVars, pruneVars>>

ReplaceNext ==
    \/ CreateBackup
    \/ TestQuantizedModels
    \/ ReplaceAudioencoder
    \/ RemoveOriginal
    \/ CopyQuantized
    \/ ShowFinalStatus

ReplaceSpec == ReplaceInit /\ [][ReplaceNext]_vars

----------------------------------------------------------------------------
(* The state machine of quantize_whisper_model.py: main quantizes the        *)
(* compiled models of model_dir and, when none of them could be quantized,   *)
(* the models of a downloaded directory; the sizes it adds up are left out   *)

WhisperInit ==
    /\ model_files = <<>>
    /\ file_idx = 0
    /\ success_count = 0
    /\ original_models = <<>>
    /\ quantized_names = {}
    /\ summary = [printed |-> FALSE]
    /\ wpc = "start"
    /\ ToolIdle
    /\ SaveIdle
    /\ ModelIdle
    /\ AppIdle
    /\ PruneIdle

\* model_files: the models of models_to_quantize that model_dir holds;
\* sys.exit(1) when there is none
FindModels ==
    /\ wpc = "start"
    /\ \E found \in Listings(models_to_quantize) :
         /\ model_files' = found
         /\ wpc' = IF found = <<>> THEN "exit1" ELSE "found"
    /\ UNCHANGED <<file_idx, success_count, original_models, quantized_names,
                   summary, toolVars, saveVars, modelVars, appVars, pruneVars>>

\* output_dir.mkdir, copy_files and the copy of MelSpectrogram.mlmodelc, any
\* of which may raise; then success_count = 0
CopyFiles ==
    /\ wpc = "found"
    /\ \E ok \in BOOLEAN : wpc' = IF ok THEN "direct" ELSE "OSError"
    /\ file_idx' = 1
    /\ success_count' = 0
    /\ UNCHANGED <<model_files, original_models, quantized_names, summary,
                   toolVars, saveVars, modelVars, appVars, pruneVars>>

\* one iteration of the first loop: quantize_compiled_model returns True
\* after it saved the quantized model, False otherwise
QuantizeCompiledModel ==
    /\ wpc = "direct"
    /\ file_idx <= Len(model_files)
    /\ \E success \in BOOLEAN :
         IF success
         THEN /\ success_count' = success_count + 1
              /\ quantized_names' = quantized_names \cup {model_files[file_idx]}
         ELSE UNCHANGED <<success_count, quantized_names>>
    /\ file_idx' = file_idx + 1
    /\ UNCHANGED <<model_files, original_models, summary, wpc,
                   toolVars, saveVars, modelVars, appVars, pruneVars>>

\* if success_count == 0: download_and_quantize_original() and the glob of
\* its *.mlmodel files; None or no file leaves nothing to quantize
DownloadOriginal ==
    /\ wpc = "direct"
    /\ file_idx > Len(model_files)
    /\ success_count = 0
    /\ \E found \in Listings(DownloadedModels) : original_models' = found
    /\ file_idx' = 1
    /\ wpc' = "fallback"
    /\ UNCHANGED <<model_files, success_count, quantized_names, summary,
                   toolVars, saveVars, modelVars, appVars, pruneVars>>

\* one iteration of the loop over original_models: a model whose name holds
\* AudioEncoder or TextDecoder is loaded, quantized and saved, and counted
\* when nothing raised
QuantizeOriginal ==
    /\ wpc = "fallback"
    /\ file_idx <= Len(original_models)
    /\ LET original_model == original_models[file_idx]
           output_file == Replace(original_model, ".mlmodel", ".mlmodelc")
       IN  IF Contains("AudioEncoder", original_model)
              \/ Contains("TextDecoder", original_model)
           THEN \E success \in BOOLEAN :
                  IF success
                  THEN /\ success_count' = success_count + 1
                       /\ quantized_names' = quantized_names \cup {output_file}
                  ELSE UNCHANGED <<success_count, quantized_names>>
           ELSE UNCHANGED <<success_count, quantized_names>>
    /\ file_idx' = file_idx + 1
    /\ UNCHANGED <<model_files, original_models, summary, wpc,
                   toolVars, saveVars, modelVars, appVars, pruneVars>>

\* the summary: "Successfully quantized: n/m models", then the success
\* message or "k models failed to quantize"
Summary ==
    /\ \/ wpc = "direct" /\ file_idx > Len(model_files) /\ success_count # 0
       \/ wpc = "fallback" /\ file_idx > Len(original_models)
    /\ summary' = [printed |-> TRUE,
                   quantized |-> success_count,
                   models |-> Len(model_files),
                   success |-> (success_count = Len(model_files)),
                   failed |-> Len(model_files) - success_count]
    /\ wpc' = "done"
    /\ UNCHANGED <<model_files, file_idx, success_count, original_models,
                   quantized_names, toolVars, saveVars, modelVars, appVars, pruneVars>>

WhisperNext ==
    \/ FindModels
    \/ CopyFiles
    \/ QuantizeCompiledModel
    \/ DownloadOriginal
    \/ QuantizeOriginal
    \/ Summary

WhisperSpec == WhisperInit /\ [][WhisperNext]_vars

----------------------------------------------------------------------------
(* The state machine of get_turkish_vocabulary_mask over a model of          *)
(* vocab_size tokens; the mask is indexed from 0                             *)

\* the vocabulary sizes of the model are 0 .. MaxVocab
MaxVocab == 320

PruneInit ==
    /\ vocab_size \in 0..MaxVocab
    /\ token_id = 0
    /\ vocab_mask = <<>>
    /\ kept_tokens = 0
    /\ ppc = "start"
    /\ ToolIdle
    /\ SaveIdle
    /\ ModelIdle
    /\ AppIdle
    /\ WhisperIdle

\* tiktoken.get_encoding("gpt2"), which may raise; then np.zeros(vocab_size),
\* vocab_mask[:300] = True and kept_tokens = 300.  When it raises, the except
\* branch returns np.ones(model.dims.n_vocab)
GetEncoding ==
    /\ ppc = "start"
    /\ \E ok \in BOOLEAN :
         IF ok
         THEN /\ vocab_mask' = [i \in 0..(vocab_size - 1) |-> i < 300]
              /\ kept_tokens' = 300
              /\ token_id' = 300
              /\ ppc' = "loop"
         ELSE /\ vocab_mask' = [i \in 0..(vocab_size - 1) |-> TRUE]
              /\ ppc' = "fallback"
              /\ UNCHANGED <<token_id, kept_tokens>>
    /\ UNCHANGED <<vocab_size,
                   toolVars, saveVars, modelVars, appVars, whisperVars>>

\* one pass of for token_id in range(300, vocab_size): both except branches
\* pass
CheckToken ==
    /\ ppc = "loop"
    /\ token_id < vocab_size
    /\ LET token_str == TokenStr(token_id)
       IN  IF /\ token_str.raised = "None"
              /\ \E k \in DOMAIN token_str.str :
                    token_str.str[k] \in allowed_chars
           THEN /\ vocab_mask' = [vocab_mask EXCEPT ![token_id] = TRUE]
                /\ kept_tokens' = kept_tokens + 1
           ELSE UNCHANGED <<vocab_mask, kept_tokens>>
    /\ token_id' = token_id + 1
    /\ UNCHANGED <<vocab_size, ppc,
                   toolVars, saveVars, modelVars, appVars, whisperVars>>

\* the loop is over: the report and return vocab_mask
ReturnMask ==
    /\ ppc = "loop"
    /\ token_id >= vocab_size
    /\ ppc' = "returned"
    /\ UNCHANGED <<vocab_size, token_id, vocab_mask, kept_tokens,
                   toolVars, saveVars, modelVars, appVars, whisperVars>>

PruneNext ==
    \/ GetEncoding
    \/ CheckToken
    \/ ReturnMask

PruneSpec == PruneInit /\ [][PruneNext]_vars

----------------------------------------------------------------------------
(* Properties *)

\* w_max > w_min
NonDegenerate(data) == Len(data) > 0 /\ ArrMin(data) # ArrMax(data)

\* w_max == w_min
AllEqual(data) == Len(data) > 0 /\ ArrMin(data) = ArrMax(data)

\* the whole-tensor int8 encoding the current state holds, if any
Int8Entry ==
    IF q.kind = "int8" THEN q
    ELSE IF q.kind = "tuple" THEN q.data
    ELSE IF q.kind = "quantized" /\ q.method = "int8" THEN q.data
    ELSE IF q.kind = "file" /\ q.file.bits = 8
    THEN [kind |-> "int8", weights |-> q.file.payload, scale |-> q.file.scale,
          zero_point |-> q.file.zero_point, shape |-> q.file.dims]
    ELSE NoEntry

\* decoded and original agree in length and differ by at most step elementwise
WithinStep(decoded, original, step) ==
    /\ Len(decoded) = Len(original)
    /\ \A i \in DOMAIN original : FLe(FAbs(FSub(decoded[i], original[i])), step)

RawCode(value, scale, zero_point) ==
    RoundHalfEven(FAdd(FDiv(value, scale), zero_point))

WholeTensorInt8Tools ==
    {"quantize_int8", "quantize_and_save_real", "quantize_weights_to_int8"}

\* C3: a whole-tensor int8 encoding of a tensor whose values are all equal
\* takes scale = 1.0 and divides nothing by zero (zero_point stays finite), in
\* quantize_int8, quantize_and_save_real and quantize_weights_to_int8.
C3_DegenerateScaleIsOne ==
    (tool \in WholeTensorInt8Tools /\ Int8Entry.kind = "int8"
        /\ AllEqual(param.data)) =>
        /\ Int8Entry.scale = FOfInt(1)
        /\ IsFinite(Int8Entry.zero_point)

\* C4: in quantize_block_wise a block whose values all equal c (the scale = 1.0
\* path) decodes with (code - zero_point) * scale to exactly c.
C4_ConstantBlockDecodesExactly ==
    (q.kind = "block") =>
        \A k \in DOMAIN q.blocks :
            LET first == (k - 1) * q.block_size + 1
                last  == MinInt(k * q.block_size, Len(param.data))
                slice == SubSeq(param.data, first, last)
            IN  AllEqual(slice) =>
                   Dequantize(q.blocks[k], q.scales[k], q.zero_points[k]) = slice

\* the 4-bit codes held by the first n nibbles of a packed array
Unpack(packed, n) ==
    [i \in 1..n |-> IF i % 2 = 1 THEN packed[(i + 1) \div 2] % 16
                    ELSE packed[i \div 2] \div 16]

\* C5 as claimed: decoding quantize_int4's codes with the affine decode
\* value = (code - zero_point) * scale gives values within scale of the tensor.
C5_Int4AffineDecodeWithinScale ==
    (q.kind = "int4" /\ NonDegenerate(param.data)) =>
        WithinStep(Dequantize(Unpack(q.packed_weights, q.original_size),
                              q.scale, q.zero_point),
                   param.data, q.scale)

\* value = code * scale + zero_point, the inverse of quantize_int4's encoding
Int4Decode(codes, scale, zero_point) ==
    [i \in DOMAIN codes |-> FAdd(FMul(FOfInt(codes[i]), scale), zero_point)]

\* C5 amended: for a tensor with w_max > w_min, decoding quantize_int4's codes
\* with value = code * scale + zero_point gives values that differ from the
\* tensor by at most scale elementwise.
C5_Int4DecodeWithinScale ==
    (q.kind = "int4" /\ NonDegenerate(param.data)) =>
        WithinStep(Int4Decode(Unpack(q.packed_weights, q.original_size),
                              q.scale, q.zero_point),
                   param.data, q.scale)

C5_Witness ==
    /\ q.kind = "int4"
    /\ NonDegenerate(param.data)
    /\ \E i \in DOMAIN param.data :
         Int4Decode(Unpack(q.packed_weights, q.original_size),
                    q.scale, q.zero_point)[i] # param.data[i]

\* ceil(n / 2)
CeilHalf(n) == IF n % 2 = 0 THEN n \div 2 ELSE (n + 1) \div 2

\* C6: for a tensor of N >= 1 elements with w_max > w_min quantize_int4 gives
\* codes in [0, 15] and exactly ceil(N/2) bytes; byte k holds code[2k] in its
\* low nibble and code[2k+1] in its high nibble (0 past the end); the first
\* original_size = N nibbles are the code sequence.
C6_Int4PackedLayout ==
    (q.kind = "int4" /\ NonDegenerate(param.data)) =>
        LET N == Len(param.data)
            code == Int4Codes(param.data, q.scale, q.zero_point, 0)
        IN  /\ \A i \in 1..N : code[i] \in 0..15
            /\ Len(q.packed_weights) = CeilHalf(N)
            /\ q.original_size = N
            /\ \A k \in 0..(CeilHalf(N) - 1) :
                 /\ q.packed_weights[k + 1] \in 0..255
                 /\ q.packed_weights[k + 1] % 16 = code[2 * k + 1]
                 /\ q.packed_weights[k + 1] \div 16
                       = (IF 2 * k + 1 = N THEN 0 ELSE code[2 * k + 2])
            /\ Unpack(q.packed_weights, q.original_size) = code

C6_Witness ==
    /\ q.kind = "int4"
    /\ NonDegenerate(param.data)
    /\ Len(param.data) = 3
    /\ q.packed_weights[2] = 15
    /\ q.packed_weights[1] \div 16 \notin {0, 15}

\* the block-wise encoding the current state holds, if any
BlockEntry ==
    IF q.kind = "block" THEN q
    ELSE IF q.kind = "quantized" /\ q.method = "block" THEN q.data
    ELSE NoEntry

\* the lengths of the blocks, in order
BlockLens(blocks) == [k \in DOMAIN blocks |-> Len(blocks[k])]

\* C7: for a tensor of N >= block_size elements quantize_block_wise gives
\* exactly ceil(N / block_size) blocks, contiguous slices of the flattened
\* tensor in order, all of block_size elements except possibly a shorter last
\* one, their lengths summing to N (300 elements in blocks of 128: 128, 128,
\* 44), with one scale and one zero_point per block, each computed from the
\* minimum and maximum of that block's own elements.
C7_BlockPartition ==
    ((tool = "quantize_block_wise" /\ pc = "quantized"
         /\ Len(param.data) >= arg_block)
     \/ BlockEntry.kind = "block") =>
        LET N  == Len(param.data)
            e  == BlockEntry
            bs == e.block_size
            nb == Len(e.blocks)
        IN  /\ e.kind = "block"
            /\ bs = (IF tool = "quantize_block_wise" THEN arg_block ELSE 128)
            /\ N >= bs
            /\ (nb - 1) * bs < N /\ N <= nb * bs
            /\ \A k \in 1..(nb - 1) : Len(e.blocks[k]) = bs
            /\ Len(e.blocks[nb]) = N - (nb - 1) * bs
            /\ Len(e.blocks[nb]) \in 1..bs
            /\ SumLen(e.blocks) = N
            /\ Len(e.scales) = nb
            /\ Len(e.zero_points) = nb
            /\ (N = 300 /\ bs = 128) => BlockLens(e.blocks) = <<128, 128, 44>>
            /\ \A k \in 1..nb :
                 LET slice == SubSeq(param.data, (k - 1) * bs + 1,
                                     (k - 1) * bs + Len(e.blocks[k]))
                     w_min == ArrMin(slice)
                     w_max == ArrMax(slice)
                 IN  IF w_min = w_max
                     THEN e.scales[k] = FOfInt(1) /\ e.zero_points[k] = w_min
                     ELSE /\ e.scales[k] = FDiv(FSub(w_max, w_min), FOfInt(254))
                          /\ e.zero_points[k]
                               = FSub(FOfInt(-127), FDiv(w_min, e.scales[k]))
                          /\ WithinStep(Dequantize(e.blocks[k], e.scales[k],
                                                   e.zero_points[k]),
                                        slice, e.scales[k])

C7_Witness ==
    /\ tool = "quantize_block_wise"
    /\ q.kind = "block"
    /\ Len(param.data) = 300
    /\ q.block_size = 128
    /\ BlockLens(q.blocks) = <<128, 128, 44>>
    /\ Len(q.scales) = 3
    /\ NonDegenerate(param.data)

\* C8: advanced_quantization with method "block" encodes every float32 tensor
\* of rank >= 2, also one of fewer than 128 elements, as a block-structured
\* result (a single short block when N < 128) and computes its size from the
\* blocks, scales and zero_points without failing.
C8_BlockMethodShortTensor ==
    (tool = "advanced_quantization" /\ arg_method = "block"
        /\ param.dtype = "float32" /\ Rank(param.shape) >= 2
        /\ Len(param.data) >= 1) =>
        /\ pc = "quantized"
        /\ q.kind = "quantized"
        /\ q.data.kind = "block"
        /\ SumLen(q.data.blocks) = Len(param.data)
        /\ Len(q.data.scales) = Len(q.data.blocks)
        /\ Len(q.data.zero_points) = Len(q.data.blocks)
        /\ total.quantized >= Len(param.data)

\* the ordered policy of the scheme selector with an empty critical set
PolicyScheme(rank, element_count) ==
    IF element_count <= 1 THEN "float32"
    ELSE IF rank < 2 THEN "float16"
    ELSE IF element_count > 1000 THEN "int8"
    ELSE "float16"

\* the bits byte of a scheme
SchemeBits(scheme) ==
    IF scheme = "int8" THEN 8 ELSE IF scheme = "float16" THEN 16 ELSE 32

\* C9: the scheme quantize_and_save_real picks for a float32 tensor is the
\* ordered policy with an empty critical set: element_count <= 1 is stored
\* unchanged as float32; otherwise rank < 2 is float16; otherwise
\* element_count > 1000 is int8; otherwise float16.
C9_SaveRealFollowsPolicy ==
    (q.kind = "file" /\ param.dtype = "float32") =>
        LET scheme == PolicyScheme(Rank(param.shape), Numel(param.shape))
        IN  /\ q.meta.type = scheme
            /\ q.file.bits = SchemeBits(scheme)
            /\ (scheme = "float32") => q.file.payload = param.data
            /\ (scheme = "int8") =>
                  \A i \in DOMAIN q.file.payload : q.file.payload[i] \in -128..127

C9_Witness ==
    /\ q.kind = "file"
    /\ param.dtype = "float32"
    /\ Rank(param.shape) >= 2
    /\ Numel(param.shape) = 1000
    /\ q.meta.type = "float16"

\* C10: a float32 tensor is encoded as int8 only if its rank is >= 2 and its
\* element count is > 1000, in quantize_weights_to_int8 and in
\* advanced_quantization with method "int8".
C10_Int8OnlyAboveThreshold ==
    (param.dtype = "float32" /\ Int8Entry.kind = "int8"
        /\ (tool = "quantize_weights_to_int8"
            \/ (tool = "advanced_quantization" /\ arg_method = "int8"))) =>
        /\ Rank(param.shape) >= 2
        /\ Numel(param.shape) > 1000

\* C11: in simple_quantization a float32 tensor with element_count <= 1 is kept
\* unchanged as float32 (passthrough), not narrowed to float16, as
\* mixed_precision_quantization keeps it.
C11_SimpleKeepsScalarsFloat32 ==
    (tool \in {"simple_quantization", "mixed_precision_quantization"}
        /\ pc = "quantized" /\ param.dtype = "float32"
        /\ Numel(param.shape) <= 1) =>
        /\ q.kind = "original"
        /\ q.dtype = "float32"
        /\ q.weights = param.data

\* the critical substrings of the claim
CriticalSubstrings ==
    {"encoder.conv1", "encoder.conv2", "decoder.token_embedding", "decoder.ln"}

\* the layer name contains one of the critical substrings
NamedCritical(layer_name) ==
    \E c \in CriticalSubstrings : Contains(c, layer_name)

Int8SizedTools ==
    {"advanced_quantization", "quantize_weights_to_int8", "simple_quantization"}

\* C20: every int8 encoding path accounts the encoded size of an N-element
\* tensor (N > 1) as exactly N + 16 bytes: advanced_quantization,
\* quantize_weights_to_int8 and simple_quantization.
C20_Int8SizeIsNPlus16 ==
    (tool \in Int8SizedTools /\ pc = "quantized" /\ Len(param.data) > 1
        /\ NonDegenerate(param.data)
        /\ (q.kind = "int8" \/ (q.kind = "quantized" /\ q.data.kind = "int8"))) =>
        total.quantized = Len(param.data) + 16

\* C19: each per-tensor file written by quantize_and_save_real is
\* self-describing: it starts with a 1-byte scheme tag, followed by rank,
\* dimensions, scheme parameters and payload, so that the place of the tag
\* does not depend on the scheme and a reader can tell from the file's own
\* bytes whether scale and zero_point are present and where the payload
\* starts.
C19_RecordStartsWithSchemeTag ==
    (q.kind = "file") =>
        LET layout == q.file.layout
            tag == CHOOSE k \in DOMAIN layout : layout[k].field = "bits"
        IN  /\ tag = 1
            /\ layout[tag].bytes = 1
            /\ \A k \in DOMAIN layout :
                  layout[k].field \in {"scale", "zero_point", "payload"} => k > tag

\* the names of a state_dict or of the metadata, in order
NamesOf(d) == [k \in DOMAIN d |-> d[k].name]

\* C14: quantize_and_save_real rejects a tensor with zero elements with an
\* error, and writes neither a per-tensor file nor a metadata entry for it.
C14_ZeroElementTensorRejected ==
    \A i \in DOMAIN state_dict :
        (Numel(state_dict[i].param.shape) = 0 /\ run >= 1) =>
            LET name == state_dict[i].name
                file == files[FileName(name)]
            IN  /\ ~(file.stage # "absent" /\ file.name = name /\ file.run = run)
                /\ \A k \in DOMAIN metadata : metadata[k].name # name
                /\ (idx > i) => spc \in {"ValueError", "InvalidShape"}

\* the tags test_loading_quantized_model decodes
DecodedTypes == {"int8", "float16"}

\* the entries of the archive's metadata that test_loading_quantized_model
\* reads
Tested(a) == {k \in DOMAIN a.parameters : k <= TestedParameters}

\* C15: a decoder given an entry whose type tag is none of the tags it
\* decodes signals an error; it neither treats the entry as some default
\* scheme nor counts it as loaded (test_loading_quantized_model).
C15_UnknownTagRejected ==
    (loaded.kind = "result"
        /\ \E k \in Tested(loaded.given) :
              loaded.given.parameters[k].info.type \notin DecodedTypes) =>
        loaded.outcome.error # "none"

\* C16: test_loading_quantized_model rejects with an error every per-tensor
\* file whose payload byte length differs from the length its header's shape
\* and its type imply (N bytes for int8, 2N for float16), shorter or longer.
C16_PayloadLengthChecked ==
    (loaded.kind = "result"
        /\ \E k \in Tested(loaded.given) :
              LET info == loaded.given.parameters[k].info
                  file == loaded.given.files[info.file]
              IN  /\ info.type \in DecodedTypes
                  /\ file.stage = "complete"
                  /\ file.content.bits = (IF info.type = "int8" THEN 8 ELSE 16)
                  /\ Len(file.content.payload) * (file.content.bits \div 8)
                        + file.cut
                     # Numel(file.content.dims) * (file.content.bits \div 8)) =>
        loaded.outcome.error # "none"

\* C17: after quantize_and_save_real completes, metadata['parameters'] (and
\* the metadata.json written from it) contains every tensor name of the
\* state_dict exactly once and no other name, in the order of the state_dict
\* iteration, which is the order in which the per-tensor files were written.
C17_MetadataListsEveryNameInOrder ==
    /\ (spc \in {"loop", "opened", "header", "written"}) =>
          /\ NamesOf(metadata) = SubSeq(NamesOf(state_dict), 1, idx - 1)
          /\ write_log = SubSeq(NamesOf(state_dict), 1,
                                IF spc = "written" THEN idx ELSE idx - 1)
    /\ (spc \in {"dumped", "returned", "ZeroDivisionError"}) =>
          /\ NamesOf(metadata) = NamesOf(state_dict)
          /\ metadata_json.state = "complete"
          /\ metadata_json.run = run
          /\ NamesOf(metadata_json.parameters) = NamesOf(state_dict)
          /\ write_log = NamesOf(state_dict)
          /\ \A k \in DOMAIN metadata :
                metadata[k].info.file = FileName(state_dict[k].name)

C17_Witness ==
    /\ spc = "returned"
    /\ Len(state_dict) = 2
    /\ FileName(state_dict[1].name) = FileName(state_dict[2].name)
    /\ NamesOf(metadata_json.parameters) = NamesOf(state_dict)
    /\ write_log = NamesOf(state_dict)

\* C18: in every state reachable while quantize_and_save_real runs, also in
\* a run that fails at a file write, a metadata.json present in the output
\* directory lists only tensors whose per-tensor file has been completely
\* written with that tensor's data by the same run.
C18_MetadataJsonListsWrittenFiles ==
    (run >= 1 /\ metadata_json.state = "complete") =>
        \A k \in DOMAIN metadata_json.parameters :
            LET e == metadata_json.parameters[k]
                file == files[e.info.file]
            IN  /\ file.stage = "complete"
                /\ file.name = e.name
                /\ file.run \in {metadata_json.run, run}

\* the file size C21 gives for a stored type, rank r and N elements
ClaimedFileSize(type, r, N) ==
    IF type = "int8" THEN 4 + 4 * r + 17 + N
    ELSE IF type = "float16" THEN 4 + 4 * r + 1 + 2 * N
    ELSE 4 + 4 * r + 1 + 4 * N

\* the size C21 gives for the file of the float32 tensor p
ClaimedSizeOf(p) ==
    ClaimedFileSize(PolicyScheme(Rank(p.shape), Numel(p.shape)),
                    Rank(p.shape), Numel(p.shape))

\* the sum of the claimed sizes over the first k tensors of d
RECURSIVE ClaimedTotal(_, _)
ClaimedTotal(d, k) ==
    IF k = 0 THEN 0 ELSE ClaimedTotal(d, k - 1) + ClaimedSizeOf(d[k].param)

\* C21: in quantize_and_save_real the file written for a float32 tensor of
\* rank r with N elements has exactly 4 + 4r + 17 + N bytes when stored as
\* int8, 4 + 4r + 1 + 2N bytes as float16 and 4 + 4r + 1 + 4N bytes as
\* float32, and total_compressed_size is the sum of these sizes over the
\* tensors of the state_dict, each counted once.
C21_FileSizesAndTotal ==
    (run >= 1) =>
        /\ \A f \in AllFiles :
              (files[f].stage = "complete") =>
                 \E i \in DOMAIN state_dict :
                    /\ state_dict[i].name = files[f].name
                    /\ state_dict[i].param.dtype = "float32"
                    /\ BytesOf(files[f]) = ClaimedSizeOf(state_dict[i].param)
        /\ sizes.compressed = ClaimedTotal(state_dict, idx - 1)
        /\ (spc \in {"metadata_opened", "dumped", "returned",
                     "ZeroDivisionError"}) => idx - 1 = Len(state_dict)

C21_Witness ==
    /\ spc = "returned"
    /\ Len(state_dict) = 2
    /\ metadata[1].info.type = "int8"
    /\ metadata[2].info.type = "float16"
    /\ BytesOf(files[metadata[1].info.file]) = 4 + 4 * 2 + 17 + 1001
    /\ BytesOf(files[metadata[2].info.file]) = 4 + 4 * 1 + 1 + 2 * 3
    /\ sizes.compressed = 1030 + 15

\* C22: for every non-empty state_dict of float32 tensors the bytes
\* quantize_and_save_real writes to the per-tensor files
\* (total_compressed_size) are strictly fewer than total_original_size; stated
\* here for the state_dicts whose tensors all have at least one element.
C22_CompressedSmallerThanOriginal ==
    (spc \in {"metadata_opened", "dumped", "returned", "ZeroDivisionError"}
        /\ Len(state_dict) >= 1
        /\ \A i \in DOMAIN state_dict :
              /\ state_dict[i].param.dtype = "float32"
              /\ Numel(state_dict[i].param.shape) >= 1) =>
        sizes.compressed < sizes.original

\* C28: in quantize_and_save_real two distinct tensor names are written to
\* two distinct files: every metadata entry's file holds the data of the
\* tensor the entry names, and no tensor's file is overwritten by another
\* tensor's.
C28_DistinctNamesDistinctFiles ==
    (run >= 1) =>
        /\ \A k \in DOMAIN metadata :
              LET file == files[metadata[k].info.file]
              IN  /\ file.stage = "complete"
                  /\ file.name = metadata[k].name
                  /\ file.run = run
        /\ \A j, k \in DOMAIN metadata :
              j # k => metadata[j].info.file # metadata[k].info.file

\* C29: every file written by quantize_and_save_real has a payload whose byte
\* length agrees with the type recorded in the metadata and the bits byte of
\* its header: N bytes for 'int8' (8), 2N for 'float16' (16), 4N for
\* 'float32' (32), N the product of the recorded shape, whatever the source
\* dtype of the tensor.
C29_PayloadLengthMatchesType ==
    (q.kind = "file") =>
        LET layout == q.file.layout
            payload == layout[Len(layout)]
            N == Numel(q.meta.shape)
        IN  /\ payload.field = "payload"
            /\ q.file.bits = SchemeBits(q.meta.type)
            /\ payload.bytes = N * (q.file.bits \div 8)
            /\ q.file.size = HeaderBytes(q.meta.shape)
                             + (IF q.meta.type = "int8" THEN 16 ELSE 0) + 1
                             + N * (q.file.bits \div 8)

\* the positions at which quantize_mlmodelc has raised
Raised == {"LoadError", "ValueError", "QuantizeError", "SaveError"}

\* the calls of quantized_model.save(path) made so far
SavesOf(path) ==
    {k \in DOMAIN lib_calls :
        lib_calls[k].call = "save" /\ lib_calls[k].path = path}

\* the components on which quantize_mlmodelc was called and has returned
ReturnedCalls ==
    {Components[k] : k \in {j \in DOMAIN Components :
                              j < component /\ Components[j] \in present}}

\* the components on which quantize_mlmodelc was called and has ended
EndedCalls ==
    ReturnedCalls
    \cup (IF mpc \in Raised THEN {Components[component]} ELSE {})

\* C23 as claimed: quantize_mlmodelc called with bits other than 4 or 8
\* raises ValueError and never saves anything to output_path; with bits 4 or
\* 8 it saves the quantized model exactly once, after quantization.
C23_BitsCheckedSavedOnce ==
    /\ (arg_bits \notin {4, 8}) =>
          /\ \A c \in EndedCalls :
                mpc = "ValueError" /\ c = Components[component]
          /\ \A k \in DOMAIN lib_calls : lib_calls[k].call # "save"
    /\ (arg_bits \in {4, 8}) =>
          \A c \in EndedCalls :
             /\ Cardinality(SavesOf(c)) = 1
             /\ \A k \in SavesOf(c) :
                   k > 1 /\ lib_calls[k - 1].call = "quantize_weights"

\* C23 amended: quantize_mlmodelc called with bits other than 4 or 8 never
\* returns, never calls quantize_weights and never saves anything to
\* output_path; it raises ValueError when the model at input_path has loaded
\* (the bits are checked after the load, so a load that fails raises the
\* loader's exception first).  With bits 4 or 8 it calls save at most once,
\* only right after quantize_weights has returned for the same model with
\* nbits = bits, and exactly once when the call returns.
C23_SavedOnlyAfterQuantization ==
    /\ (arg_bits \notin {4, 8}) =>
          /\ ReturnedCalls = {}
          /\ \A k \in DOMAIN lib_calls : lib_calls[k].call = "MLModel"
          /\ \A c \in DOMAIN Components : output[Components[c]] = "absent"
          /\ mpc \notin {"quantized", "QuantizeError", "SaveError"}
          /\ (mpc \in Raised) =>
                LET last == lib_calls[Len(lib_calls)]
                IN  /\ last.path = Components[component]
                    /\ mpc = (IF last.ok THEN "ValueError" ELSE "LoadError")
    /\ (arg_bits \in {4, 8}) =>
          /\ mpc # "ValueError"
          /\ \A k \in DOMAIN lib_calls :
                (lib_calls[k].call = "save") =>
                    /\ k > 1
                    /\ lib_calls[k - 1]
                         = [call |-> "quantize_weights",
                            path |-> lib_calls[k].path,
                            nbits |-> arg_bits, ok |-> TRUE]
          /\ \A c \in DOMAIN Components :
                Cardinality(SavesOf(Components[c])) <= 1
          /\ \A c \in ReturnedCalls :
                /\ Cardinality(SavesOf(c)) = 1
                /\ \A k \in SavesOf(c) : lib_calls[k].ok
                /\ output[c] = "saved"

C23_Witness ==
    /\ arg_bits = 16
    /\ mpc = "ValueError"
    /\ component = 2
    /\ lib_calls = <<[call |-> "MLModel", path |-> "TextDecoder.mlmodelc",
                      nbits |-> 0, ok |-> TRUE]>>
    /\ \A e \in ModelEntries : output[e] = "absent"

\* C24: in every run of replace_app_models.main the app's original
\* AudioEncoder.mlmodelc is removed only after create_backup has returned a
\* backup directory that exists; when create_backup returns None, main stops
\* and nothing in the app's model directory is removed or replaced.
C24_RemovedOnlyAfterBackup ==
    /\ (app_encoder \notin Untouched \/ apc \in {"removed", "replaced", "done"}) =>
          /\ backup_dir = "path"
          /\ backup # "absent"
    /\ (backup_dir = "None") =>
          /\ apc = "no_backup"
          /\ app_encoder \in Untouched
          /\ working_models = <<>>
    /\ (backup_dir = "unset") => (apc = "start" /\ app_encoder \in Untouched)

C24_Witness ==
    /\ apc = "done"
    /\ app_encoder = "quantized"
    /\ backup = "copied"
    /\ backup_dir = "path"

\* the models of working_models
Working == {working_models[k] : k \in DOMAIN working_models}

\* C25: replace_app_models.main replaces the app's AudioEncoder only if the
\* quantized AudioEncoder itself (AudioEncoder_quantized.mlmodelc) was loaded
\* successfully by test_quantized_models earlier in the same run.
C25_ReplacedOnlyIfEncoderLoaded ==
    (app_encoder \notin Untouched) =>
        "AudioEncoder_quantized.mlmodelc" \in Working

\* C26: if replace_audioencoder returns False, the app's original
\* AudioEncoder.mlmodelc is still present and unchanged: a failure at any
\* step of the replacement leaves the model directory as it was before the
\* call.
C26_FailureLeavesOriginal ==
    (apc = "failed") => app_encoder \in Untouched

\* C27: at the end of quantize_whisper_model.main success_count never
\* exceeds len(model_files), in the direct path and in the download fallback
\* path alike, so the reported number of failed models
\* len(model_files) - success_count is never negative and the success message
\* is printed exactly when every model in model_files was quantized.
C27_SuccessCountWithinModelFiles ==
    (wpc = "done") =>
        /\ success_count <= Len(model_files)
        /\ summary.quantized = success_count
        /\ summary.failed >= 0
        /\ summary.success <=>
              \A k \in DOMAIN model_files : model_files[k] \in quantized_names

====
